---- MODULE Spec2Model ----
(***************************************************************************)
(* zap-shift-server (src/index.js): the parcel store, the payment ledger,  *)
(* the payment gateway's checkout sessions, and the request handlers that  *)
(* act on them.  Every await of a handler is a separate step, so handlers  *)
(* of overlapping requests interleave exactly where the event loop lets    *)
(* them.                                                                   *)
(*                                                                         *)
(* An absent value (undefined / null / no document) is the empty sequence  *)
(* None; a present value x is Some(x) = <<x>>.                             *)
(***************************************************************************)
EXTENDS Integers, Sequences, FiniteSets, TLC

\* ---------------------------------------------------------------- bounds
MaxParcels    == 2      \* parcels ever inserted
MaxSessions   == 2      \* checkout sessions ever created
MaxReconciles == 2      \* PATCH /payment-success requests ever received
MaxClock      == 0      \* the clock reads 0..MaxClock milliseconds
NumRand       == 2      \* distinct random segments Math.random() yields

\* ------------------------------------------------------- program constants
TimeMod    == 100000000 \* Date.now().toString().slice(-8): the last 8 digits
MinorUnits == 100       \* unit_amount: amount * 100, amount: amount_total / 100

None    == <<>>
Some(x) == <<x>>
Get(o)  == o[1]

Handlers  == 1..MaxReconciles  \* every request may overlap every other
Clock     == 0..MaxClock  \* Date.now() is wall-clock time: it is not monotonic
ParcelIds == 1..MaxParcels
BadId     == 0          \* a parcelId string that is no ObjectId
NoSuchId  == MaxParcels + 1  \* an ObjectId the store never assigned
ParcelRefs == {BadId, NoSuchId} \cup ParcelIds
Emails    == {"sender@zap.io"}
ParcelNames == {"Books"}
PostedStatuses == {"unpaid", "paid"}

VARIABLES
  parcels,      \* parcelsCollection: _id -> None | Some(document)
  nextParcel,   \* the next _id the store assigns (ObjectIds are never reused)
  payments,     \* paymentCollection: the documents in insertion order
  users,        \* usersCollection: the documents in insertion order
  sessions,     \* the gateway's checkout sessions; a session's id is its index
  pc,           \* per handler: the await it is suspended at
  req,          \* per handler: the handler's local variables
  log           \* the completed requests, each with its response

vars == <<parcels, nextParcel, payments, users, sessions, pc, req, log>>

\* ------------------------------------------------------------ pure helpers

\* ObjectId.isValid(id) / new ObjectId(id) does not throw
ObjectIdIsValid(id) == id # BadId

Digits == {"0", "1", "2", "3", "4", "5", "6", "7", "8", "9"}
DigitVal(c) ==
  CASE c = "0" -> 0 [] c = "1" -> 1 [] c = "2" -> 2 [] c = "3" -> 3
    [] c = "4" -> 4 [] c = "5" -> 5 [] c = "6" -> 6 [] c = "7" -> 7
    [] c = "8" -> 8 [] c = "9" -> 9

NaN == -999999          \* stands for the one value isNaN() accepts

RECURSIVE LeadingDigits(_, _)
\* the value of the longest prefix of digits of s, continuing from acc
LeadingDigits(s, acc) ==
  IF s = <<>> \/ Head(s) \notin Digits THEN acc
  ELSE LeadingDigits(Tail(s), acc * 10 + DigitVal(Head(s)))

HexDigits == Digits \cup {"a", "b", "c", "d", "e", "f", "A", "B", "C", "D", "E", "F"}
HexVal(c) ==
  CASE c \in Digits -> DigitVal(c)
    [] c \in {"a", "A"} -> 10 [] c \in {"b", "B"} -> 11 [] c \in {"c", "C"} -> 12
    [] c \in {"d", "D"} -> 13 [] c \in {"e", "E"} -> 14 [] c \in {"f", "F"} -> 15

RECURSIVE LeadingHexDigits(_, _)
\* the value of the longest prefix of hexadecimal digits of s, from acc
LeadingHexDigits(s, acc) ==
  IF s = <<>> \/ Head(s) \notin HexDigits THEN acc
  ELSE LeadingHexDigits(Tail(s), acc * 16 + HexVal(Head(s)))

RECURSIVE TrimStart(_)
\* s without its leading white space
TrimStart(s) == IF s # <<>> /\ Head(s) = " " THEN TrimStart(Tail(s)) ELSE s

\* parseInt(cost) for a cost given as a sequence of characters: leading white
\* space is skipped, then an optional sign, then "0x" and the longest run of
\* hexadecimal digits, or the longest run of decimal digits; NaN when there
\* is no digit.  Whatever follows the run is ignored.
parseInt(s) ==
  LET t    == TrimStart(s)
      neg  == t # <<>> /\ Head(t) = "-"
      body == IF t # <<>> /\ Head(t) \in {"-", "+"} THEN Tail(t) ELSE t
      hex  == Len(body) >= 2 /\ body[1] = "0" /\ body[2] \in {"x", "X"}
      abs  == IF hex
                THEN IF Len(body) >= 3 /\ body[3] \in HexDigits
                       THEN LeadingHexDigits(Tail(Tail(body)), 0) ELSE NaN
              ELSE IF body = <<>> \/ Head(body) \notin Digits THEN NaN
              ELSE LeadingDigits(body, 0)
  IN  IF abs = NaN THEN NaN ELSE IF neg THEN 0 - abs ELSE abs


isNaN(n) == n = NaN

\* generateTrackingId(): "ZAP-<last 8 digits of Date.now()>-<random segment>"
generateTrackingId(t, r) == <<"ZAP", t % TimeMod, r>>

\* ------------------------------------------------------------------ state

\* the session_id of a request's query string: absent, or a reference the
\* gateway may or may not know
SessionRefs == {None} \cup {Some(i) : i \in 1..MaxSessions}

\* the cost of a POST /create-checkout-session body, character by character
CostInputs == {<<"5">>, <<"0">>, <<"-", "5">>, <<"5", ".", "9">>, <<"a">>}

\* a handler's local variables before it has assigned any
NoLocals ==
  [session_id |-> None, session |-> None, parcel |-> None, trackingId |-> None,
   result |-> None, payment |-> None, resultPayment |-> None, error |-> None]

\* a response body: the fields a res.send() of the service can carry
Body(success, message, error, trackingId, transactionId, modifyParcel, paymentInfo) ==
  [success |-> success, message |-> message, error |-> error,
   trackingId |-> trackingId, transactionId |-> transactionId,
   modifyParcel |-> modifyParcel, paymentInfo |-> paymentInfo]

InFlight == {h \in Handlers : pc[h] # "idle"}

Init ==
  /\ parcels = [i \in ParcelIds |-> None]
  /\ nextParcel = 1
  /\ payments = <<>>
  /\ users = <<>>
  /\ sessions = <<>>
  /\ pc = [h \in Handlers |-> "idle"]
  /\ req = [h \in Handlers |-> NoLocals]
  /\ log = <<>>

\* res.status(status).send(body): the request of handler h is over
Respond(h, locals, status, body) ==
  /\ log' = Append(log, locals @@ [status |-> status, body |-> body])
  /\ pc' = [pc EXCEPT ![h] = "idle"]
  /\ req' = [req EXCEPT ![h] = NoLocals]

\* catch (error): 500 {error: "Internal Server Error"}
Catch(h, e) ==
  Respond(h, [req[h] EXCEPT !.error = Some(e)], 500,
          Body(None, None, Some("Internal Server Error"), None, None, None, None))

\* parcelsCollection.findOne({_id: new ObjectId(id)})
FindParcel(id) == IF id \in ParcelIds THEN parcels[id] ELSE None

\* ObjectIds cannot be guessed: a request names an id the store has assigned,
\* an id it never will, or no ObjectId at all
Nameable(id) == id \in {BadId, NoSuchId} \/ id < nextParcel

\* ------------------------------------------------------------ the gateway

\* the customer completes the hosted checkout: the gateway marks the session
\* paid and names the charge
PaySession(s) ==
  /\ s \in 1..Len(sessions)
  /\ sessions[s].payment_status = "unpaid"
  /\ sessions' = [sessions EXCEPT ![s] =
                    [@ EXCEPT !.payment_status = "paid", !.payment_intent = Some(s)]]
  /\ UNCHANGED <<users, parcels, nextParcel, payments, pc, req, log>>

\* ------------------------------------------------------------ the handlers

\* POST /parcels: the body is stored as it came
PostParcel(status) ==
  /\ nextParcel <= MaxParcels
  /\ parcels' = [parcels EXCEPT ![nextParcel] =
                   Some([paymentStatus |-> status, trackingId |-> None])]
  /\ nextParcel' = nextParcel + 1
  /\ UNCHANGED <<users, payments, sessions, pc, req, log>>

\* DELETE /parcels/:id
DeleteParcel(id) ==
  /\ Nameable(id)
  /\ ObjectIdIsValid(id)
  /\ parcels' = [i \in ParcelIds |-> IF i = id THEN None ELSE parcels[i]]
  /\ UNCHANGED <<users, nextParcel, payments, sessions, pc, req, log>>

\* POST /create-checkout-session
CreateCheckoutSession(cost, parcelId, parcelName, senderEmail) ==
  LET amount == parseInt(cost) IN
  /\ Len(sessions) < MaxSessions
  /\ Nameable(parcelId)
  /\ ~(isNaN(amount) \/ amount <= 0)
  /\ sessions' = Append(sessions,
       [payment_status |-> "unpaid",
        amount_total   |-> amount * MinorUnits,
        currency       |-> "usd",
        customer_email |-> senderEmail,
        metadata       |-> [parcelId |-> parcelId, parcelName |-> parcelName],
        payment_intent |-> None])
  /\ UNCHANGED <<users, parcels, nextParcel, payments, pc, req, log>>

\* PATCH /payment-success, up to the first await: the session_id check
Begin(h, session_id) ==
  /\ pc[h] = "idle"
  /\ \A g \in Handlers : g < h => pc[g] # "idle"
  /\ Len(log) + Cardinality(InFlight) < MaxReconciles
  /\ IF session_id = None
       THEN /\ Respond(h, NoLocals, 400,
                       Body(None, None, Some("No session ID"), None, None, None, None))
       ELSE /\ pc' = [pc EXCEPT ![h] = "retrieve"]
            /\ req' = [req EXCEPT ![h] = [NoLocals EXCEPT !.session_id = session_id]]
            /\ log' = log
  /\ UNCHANGED <<users, parcels, nextParcel, payments, sessions>>

\* Retrieve without the payment_status check: every retrieved session is
\* taken for paid
RetrieveAnyStatus(h, up) ==
  LET id == Get(req[h].session_id) IN
  /\ pc[h] = "retrieve"
  /\ IF ~up
       THEN Catch(h, "StripeConnectionError")
     ELSE IF id \notin 1..Len(sessions)
       THEN Catch(h, "No such checkout.session")
     ELSE LET session == sessions[id]
              locals  == [req[h] EXCEPT !.session = Some(session)]
          IN  IF ~ObjectIdIsValid(session.metadata.parcelId)
                THEN Respond(h, [locals EXCEPT !.error = Some("BSONError")], 500,
                             Body(None, None, Some("Internal Server Error"),
                                  None, None, None, None))
                ELSE /\ pc' = [pc EXCEPT ![h] = "findOne"]
                     /\ req' = [req EXCEPT ![h] = locals]
                     /\ log' = log
  /\ UNCHANGED <<users, parcels, nextParcel, payments, sessions>>

\* Retrieve with a failed retrieval answered like a session that is not paid,
\* instead of being thrown to the catch
RetrieveSwallowsError(h, up) ==
  LET id == Get(req[h].session_id)
      notVerified == Body(Some(FALSE), Some("Payment not verified"), None,
                          None, None, None, None)
  IN
  /\ pc[h] = "retrieve"
  /\ IF ~up
       THEN Respond(h, [req[h] EXCEPT !.error = Some("StripeConnectionError")],
                    400, notVerified)
     ELSE IF id \notin 1..Len(sessions)
       THEN Respond(h, [req[h] EXCEPT !.error = Some("No such checkout.session")],
                    400, notVerified)
     ELSE LET session == sessions[id]
              locals  == [req[h] EXCEPT !.session = Some(session)]
          IN  IF session.payment_status = "paid"
                THEN IF ~ObjectIdIsValid(session.metadata.parcelId)
                       THEN Respond(h, [locals EXCEPT !.error = Some("BSONError")], 500,
                                    Body(None, None, Some("Internal Server Error"),
                                         None, None, None, None))
                       ELSE /\ pc' = [pc EXCEPT ![h] = "findOne"]
                            /\ req' = [req EXCEPT ![h] = locals]
                            /\ log' = log
                ELSE Respond(h, locals, 400, notVerified)
  /\ UNCHANGED <<users, parcels, nextParcel, payments, sessions>>

\* await stripe.checkout.sessions.retrieve(session_id) settles; the handler
\* runs on to await parcelsCollection.findOne(query), or responds.
\* up: the gateway can be reached
Retrieve(h, up) ==
  LET id == Get(req[h].session_id) IN
  /\ pc[h] = "retrieve"
  /\ IF ~up
       THEN Catch(h, "StripeConnectionError")
     ELSE IF id \notin 1..Len(sessions)
       THEN Catch(h, "No such checkout.session")
     ELSE LET session == sessions[id]
              locals  == [req[h] EXCEPT !.session = Some(session)]
          IN  IF session.payment_status = "paid"
                THEN IF ~ObjectIdIsValid(session.metadata.parcelId)
                       THEN Respond(h, [locals EXCEPT !.error = Some("BSONError")], 500,
                                    Body(None, None, Some("Internal Server Error"),
                                         None, None, None, None))
                       ELSE /\ pc' = [pc EXCEPT ![h] = "findOne"]
                            /\ req' = [req EXCEPT ![h] = locals]
                            /\ log' = log
                ELSE Respond(h, locals, 400,
                             Body(Some(FALSE), Some("Payment not verified"), None,
                                  None, None, None, None))
  /\ UNCHANGED <<users, parcels, nextParcel, payments, sessions>>

\* FindOne without the idempotency check: a paid parcel is processed again
FindOneNoShortCircuit(h, up, now, r) ==
  LET session == Get(req[h].session)
      parcel  == FindParcel(session.metadata.parcelId)
      locals  == [req[h] EXCEPT !.parcel = parcel]
  IN
  /\ pc[h] = "findOne"
  /\ IF ~up
       THEN Catch(h, "MongoError")
       ELSE /\ pc' = [pc EXCEPT ![h] = "updateOne"]
            /\ req' = [req EXCEPT ![h] =
                         [locals EXCEPT !.trackingId = generateTrackingId(now, r)]]
            /\ log' = log
  /\ UNCHANGED <<users, parcels, nextParcel, payments, sessions>>

\* FindOne whose short-circuit answers with a newly generated tracking id
\* instead of the one stored on the parcel
FindOneFreshId(h, up, now, r) ==
  LET session == Get(req[h].session)
      parcel  == FindParcel(session.metadata.parcelId)
      locals  == [req[h] EXCEPT !.parcel = parcel]
  IN
  /\ pc[h] = "findOne"
  /\ IF ~up
       THEN Catch(h, "MongoError")
     ELSE IF parcel # None /\ Get(parcel).paymentStatus = "paid"
       THEN Respond(h, locals, 200,
                    Body(Some(TRUE), Some("Payment already processed"), None,
                         generateTrackingId(now, r), session.payment_intent,
                         None, None))
     ELSE /\ pc' = [pc EXCEPT ![h] = "updateOne"]
          /\ req' = [req EXCEPT ![h] =
                       [locals EXCEPT !.trackingId = generateTrackingId(now, r)]]
          /\ log' = log
  /\ UNCHANGED <<users, parcels, nextParcel, payments, sessions>>

\* await parcelsCollection.findOne(query) settles; the handler responds
\* "already processed", or generates a tracking id and runs on to await
\* parcelsCollection.updateOne(query, update).
\* up: the store answers; now: what Date.now() reads; r: the random segment
\* Math.random() yields
FindOne(h, up, now, r) ==
  LET session == Get(req[h].session)
      parcel  == FindParcel(session.metadata.parcelId)
      locals  == [req[h] EXCEPT !.parcel = parcel]
  IN
  /\ pc[h] = "findOne"
  /\ IF ~up
       THEN Catch(h, "MongoError")
     ELSE IF parcel # None /\ Get(parcel).paymentStatus = "paid"
       THEN Respond(h, locals, 200,
                    Body(Some(TRUE), Some("Payment already processed"), None,
                         Get(parcel).trackingId, session.payment_intent, None, None))
     ELSE /\ pc' = [pc EXCEPT ![h] = "updateOne"]
          /\ req' = [req EXCEPT ![h] =
                       [locals EXCEPT !.trackingId = generateTrackingId(now, r)]]
          /\ log' = log
  /\ UNCHANGED <<users, parcels, nextParcel, payments, sessions>>

\* what updateOne({_id}, {$set: {paymentStatus: "paid", trackingId}}) makes of
\* the document it matches
SetPaid(doc, trackingId) ==
  [doc EXCEPT !.paymentStatus = "paid", !.trackingId = trackingId]

\* UpdateOne that records amount_total as it is, in minor units
UpdateOneMinorUnits(h, up, now) ==
  LET session  == Get(req[h].session)
      parcelId == session.metadata.parcelId
      old      == FindParcel(parcelId)
      new      == IF old = None THEN None ELSE Some(SetPaid(Get(old), req[h].trackingId))
      result   == [matchedCount  |-> IF old = None THEN 0 ELSE 1,
                   modifiedCount |-> IF old = new THEN 0 ELSE 1]
      payment  == [amount        |-> session.amount_total,
                   currency      |-> session.currency,
                   customerEmail |-> session.customer_email,
                   parcelId      |-> parcelId,
                   parcelName    |-> session.metadata.parcelName,
                   trackingId    |-> req[h].trackingId,
                   transactionId |-> session.payment_intent,
                   paymentStatus |-> session.payment_status,
                   paidAt        |-> now]
  IN
  /\ pc[h] = "updateOne"
  /\ IF ~up
       THEN /\ Catch(h, "MongoError")
            /\ parcels' = parcels
       ELSE /\ parcels' = [i \in ParcelIds |-> IF i = parcelId THEN new ELSE parcels[i]]
            /\ pc' = [pc EXCEPT ![h] = "insertOne"]
            /\ req' = [req EXCEPT ![h] =
                         [@ EXCEPT !.result = Some(result), !.payment = Some(payment)]]
            /\ log' = log
  /\ UNCHANGED <<users, nextParcel, payments, sessions>>

\* UpdateOne with an empty filter: updateMany({}, update) marks every stored
\* parcel paid
UpdateOneEveryParcel(h, up, now) ==
  LET session  == Get(req[h].session)
      parcelId == session.metadata.parcelId
      old      == FindParcel(parcelId)
      new      == IF old = None THEN None ELSE Some(SetPaid(Get(old), req[h].trackingId))
      result   == [matchedCount  |-> IF old = None THEN 0 ELSE 1,
                   modifiedCount |-> IF old = new THEN 0 ELSE 1]
      payment  == [amount        |-> session.amount_total \div MinorUnits,
                   currency      |-> session.currency,
                   customerEmail |-> session.customer_email,
                   parcelId      |-> parcelId,
                   parcelName    |-> session.metadata.parcelName,
                   trackingId    |-> req[h].trackingId,
                   transactionId |-> session.payment_intent,
                   paymentStatus |-> session.payment_status,
                   paidAt        |-> now]
  IN
  /\ pc[h] = "updateOne"
  /\ IF ~up
       THEN /\ Catch(h, "MongoError")
            /\ parcels' = parcels
       ELSE /\ parcels' = [i \in ParcelIds |->
                             IF parcels[i] = None THEN None
                             ELSE Some(SetPaid(Get(parcels[i]), req[h].trackingId))]
            /\ pc' = [pc EXCEPT ![h] = "insertOne"]
            /\ req' = [req EXCEPT ![h] =
                         [@ EXCEPT !.result = Some(result), !.payment = Some(payment)]]
            /\ log' = log
  /\ UNCHANGED <<users, nextParcel, payments, sessions>>

\* await parcelsCollection.updateOne(query, update) settles; the handler
\* builds the payment document and runs on to await
\* paymentCollection.insertOne(payment).
\* up: the store answers; now: what new Date() reads
UpdateOne(h, up, now) ==
  LET session  == Get(req[h].session)
      parcelId == session.metadata.parcelId
      old      == FindParcel(parcelId)
      new      == IF old = None THEN None ELSE Some(SetPaid(Get(old), req[h].trackingId))
      result   == [matchedCount  |-> IF old = None THEN 0 ELSE 1,
                   modifiedCount |-> IF old = new THEN 0 ELSE 1]
      payment  == [amount        |-> session.amount_total \div MinorUnits,
                   currency      |-> session.currency,
                   customerEmail |-> session.customer_email,
                   parcelId      |-> parcelId,
                   parcelName    |-> session.metadata.parcelName,
                   trackingId    |-> req[h].trackingId,
                   transactionId |-> session.payment_intent,
                   paymentStatus |-> session.payment_status,
                   paidAt        |-> now]
  IN
  /\ pc[h] = "updateOne"
  /\ IF ~up
       THEN /\ Catch(h, "MongoError")
            /\ parcels' = parcels
       ELSE /\ parcels' = [i \in ParcelIds |-> IF i = parcelId THEN new ELSE parcels[i]]
            /\ pc' = [pc EXCEPT ![h] = "insertOne"]
            /\ req' = [req EXCEPT ![h] =
                         [@ EXCEPT !.result = Some(result), !.payment = Some(payment)]]
            /\ log' = log
  /\ UNCHANGED <<users, nextParcel, payments, sessions>>

\* InsertOne as an upsert keyed by parcelId: a record that already references
\* the parcel is replaced instead of a new one being appended
InsertOneReplaces(h, up) ==
  LET session  == Get(req[h].session)
      payment  == Get(req[h].payment)
      same     == {i \in DOMAIN payments : payments[i].parcelId = payment.parcelId}
      insertedId == IF same = {} THEN Len(payments) + 1 ELSE CHOOSE i \in same : TRUE
      locals   == [req[h] EXCEPT !.resultPayment = Some(insertedId)]
  IN
  /\ pc[h] = "insertOne"
  /\ IF ~up
       THEN /\ Catch(h, "MongoError")
            /\ payments' = payments
       ELSE /\ payments' = IF same = {} THEN Append(payments, payment)
                           ELSE [payments EXCEPT ![insertedId] = payment]
            /\ Respond(h, locals, 200,
                       Body(Some(TRUE), None, None, req[h].trackingId,
                            session.payment_intent, req[h].result, Some(insertedId)))
  /\ UNCHANGED <<users, parcels, nextParcel, sessions>>

\* await paymentCollection.insertOne(payment) settles; the handler responds
InsertOne(h, up) ==
  LET session  == Get(req[h].session)
      insertedId == Len(payments) + 1
      locals   == [req[h] EXCEPT !.resultPayment = Some(insertedId)]
  IN
  /\ pc[h] = "insertOne"
  /\ IF ~up
       THEN /\ Catch(h, "MongoError")
            /\ payments' = payments
       ELSE /\ payments' = Append(payments, Get(req[h].payment))
            /\ Respond(h, locals, 200,
                       Body(Some(TRUE), None, None, req[h].trackingId,
                            session.payment_intent, req[h].result, Some(insertedId)))
  /\ UNCHANGED <<users, parcels, nextParcel, sessions>>

\* ------------------------------------------- POST /create-checkout-session

MaxCheckouts == 2       \* POST /create-checkout-session requests ever received

\* the cost of a request body, character by character: positive integers,
\* zero, negative, fractional, with trailing characters, not numeric, empty
CheckoutCosts ==
  CostInputs \cup {<<"1", "2">>, <<"5", "a">>, <<>>, <<" ", "7">>,
                   <<"0", "x", "1", "0">>, <<"+", "3">>}

\* POST /create-checkout-session with its response: 400 for a cost parseInt
\* does not turn into a positive number, else the session the gateway creates
\* is answered with its id, or the gateway's failure with 500.
\* up: the gateway can be reached
PostCreateCheckoutSession(cost, parcelId, parcelName, senderEmail, up) ==
  LET amount == parseInt(cost)
      paymentInfo == [cost |-> cost, parcelId |-> parcelId,
                      parcelName |-> parcelName, senderEmail |-> senderEmail]
      answer(status, error, id) ==
        Append(log, paymentInfo @@ [status |-> status,
                                    body |-> [error |-> error, id |-> id]])
  IN
  /\ Len(log) < MaxCheckouts
  /\ Nameable(parcelId)
  /\ IF isNaN(amount) \/ amount <= 0
       THEN /\ log' = answer(400, Some("Invalid cost amount"), None)
            /\ sessions' = sessions
     ELSE IF ~up
       THEN /\ log' = answer(500, Some("StripeConnectionError"), None)
            /\ sessions' = sessions
     ELSE /\ Len(sessions) < MaxSessions
          /\ sessions' = Append(sessions,
               [payment_status |-> "unpaid",
                amount_total   |-> amount * MinorUnits,
                currency       |-> "usd",
                customer_email |-> senderEmail,
                metadata       |-> [parcelId |-> parcelId, parcelName |-> parcelName],
                payment_intent |-> None])
          /\ log' = answer(200, None, Some(Len(sessions) + 1))
  /\ UNCHANGED <<users, parcels, nextParcel, payments, pc, req>>

CheckoutNext ==
  \E cost \in CheckoutCosts, parcelId \in ParcelRefs, parcelName \in ParcelNames,
     senderEmail \in Emails, up \in BOOLEAN :
    PostCreateCheckoutSession(cost, parcelId, parcelName, senderEmail, up)

\* POST /create-checkout-session requests and their responses
CheckoutSpec == Init /\ [][CheckoutNext]_vars

\* ------------------------------------------------------------ GET /payments

MaxQueries == 2         \* GET /payments requests ever received
MaxLedger  == 2         \* Payment Records in the ledger GET /payments reads
MaxPaidAt  == 1         \* their paidAt is 0..MaxPaidAt

Callers == {"sender@zap.io", "other@zap.io"}
\* BSON null: what is stored and returned for a field given as null, and what
\* the driver sends for a filter value that is undefined
Null == "null"

\* the Authorization header: absent, or a scheme prefix followed by a token
Tokens == {"idToken:sender@zap.io", "idToken:other@zap.io", "idToken:anonymous",
           "expired"}
AuthHeaders == {None} \cup {Some(<<prefix, token>>) :
                              prefix \in {"Bearer ", "Basic "}, token \in Tokens}
\* authHeader.startsWith("Bearer ")
startsWithBearer(authHeader) == authHeader[1] = "Bearer "
\* authHeader.split("Bearer ")[1]
splitBearer(authHeader) == authHeader[2]

\* admin.auth().verifyIdToken(token): the decoded token, or None when the
\* verification rejects.  A token of an anonymous or phone sign-in decodes
\* with no email.
verifyIdToken(token) ==
  CASE token = "idToken:sender@zap.io" -> Some([email |-> Some("sender@zap.io")])
    [] token = "idToken:other@zap.io"  -> Some([email |-> Some("other@zap.io")])
    [] token = "idToken:anonymous"     -> Some([email |-> None])
    [] OTHER                           -> None

\* a Payment Record as line 256 builds it, for a session whose customer_email
\* was email (null when the checkout was created without senderEmail)
LedgerRecord(email, paidAt) ==
  [amount |-> 5, currency |-> "usd", customerEmail |-> email, parcelId |-> 1,
   parcelName |-> "Books", trackingId |-> <<"ZAP", paidAt, 1>>,
   transactionId |-> Some(1), paymentStatus |-> "paid", paidAt |-> paidAt]
LedgerRecords ==
  {LedgerRecord(email, paidAt) : email \in Callers \cup {Null}, paidAt \in 0..MaxPaidAt}
Ledgers == UNION {[1..n -> LedgerRecords] : n \in 0..MaxLedger}

\* the local variables of verifyFBToken and the GET /payments handler
QueryLocals(authHeader, email) ==
  [authHeader |-> authHeader, email |-> email, token |-> None, user |-> None,
   decoded_email |-> None, result |-> None]
\* the body of a GET /payments response: {message}, or the array of documents
QueryBody(message, result) == [message |-> message, result |-> result]

\* the documents find({customerEmail: email}) matches: an undefined filter
\* value is sent as null
FindPayments(email) ==
  LET value == IF email = None THEN Null ELSE Get(email)
  IN  SelectSeq(payments, LAMBDA d : d.customerEmail = value)
\* .sort({paidAt: -1}): the matched documents by descending paidAt, documents
\* of equal paidAt in any order
SortedByPaidAtDesc(s) == \A i, j \in DOMAIN s : i < j => s[i].paidAt >= s[j].paidAt
SortPaidAtDesc(docs) ==
  {s \in {[i \in DOMAIN docs |-> docs[f[i]]] : f \in Permutations(DOMAIN docs)} :
     SortedByPaidAtDesc(s)}

\* GET /payments enters verifyFBToken, which runs up to
\* await admin.auth().verifyIdToken(token), or responds.
\* initialized: admin.apps.length, whether firebase-admin was initialised at
\* start-up (lines 12-28 swallow the error when it was not)
GetPayments(h, authHeader, email, initialized) ==
  LET locals == QueryLocals(authHeader, email) IN
  /\ pc[h] = "idle"
  /\ \A g \in Handlers : g < h => pc[g] # "idle"
  /\ Len(log) + Cardinality(InFlight) < MaxQueries
  /\ IF authHeader = None \/ ~startsWithBearer(Get(authHeader))
       THEN Respond(h, locals, 401,
                    QueryBody(Some("Unauthorized access - No token provided"), None))
     ELSE IF ~initialized
       THEN Respond(h, [locals EXCEPT !.token = Some(splitBearer(Get(authHeader)))],
                    500, QueryBody(Some("Firebase not initialized"), None))
     ELSE /\ pc' = [pc EXCEPT ![h] = "verifyIdToken"]
          /\ req' = [req EXCEPT ![h] =
                       [locals EXCEPT !.token = Some(splitBearer(Get(authHeader)))]]
          /\ log' = log
  /\ UNCHANGED <<users, parcels, nextParcel, payments, sessions>>

\* await admin.auth().verifyIdToken(token) settles; verifyFBToken responds 401
\* or calls next(), and the handler responds 403 or runs on to await
\* paymentCollection.find(query).sort({paidAt: -1}).toArray().
\* up: the identity service can be reached
VerifyIdToken(h, up) ==
  LET decodedToken == IF up THEN verifyIdToken(Get(req[h].token)) ELSE None IN
  /\ pc[h] = "verifyIdToken"
  /\ IF decodedToken = None
       THEN Respond(h, req[h], 401,
                    QueryBody(Some("Unauthorized access - Invalid token"), None))
     ELSE LET locals == [req[h] EXCEPT !.user = decodedToken,
                                       !.decoded_email = Get(decodedToken).email]
          IN  IF locals.decoded_email # locals.email
                THEN Respond(h, locals, 403, QueryBody(Some("Forbidden access"), None))
                ELSE /\ pc' = [pc EXCEPT ![h] = "find"]
                     /\ req' = [req EXCEPT ![h] = locals]
                     /\ log' = log
  /\ UNCHANGED <<users, parcels, nextParcel, payments, sessions>>

\* await paymentCollection.find(query).sort({paidAt: -1}).toArray() settles;
\* the handler sends the array.  The handler has no try/catch: when the store
\* fails the rejection is unhandled and no response is sent.
\* up: the store answers
FindSorted(h, up) ==
  /\ pc[h] = "find"
  /\ IF ~up
       THEN /\ pc' = [pc EXCEPT ![h] = "idle"]
            /\ req' = [req EXCEPT ![h] = NoLocals]
            /\ log' = log
       ELSE \E result \in SortPaidAtDesc(FindPayments(req[h].email)) :
              Respond(h, [req[h] EXCEPT !.result = Some(result)], 200,
                      QueryBody(None, Some(result)))
  /\ UNCHANGED <<users, parcels, nextParcel, payments, sessions>>

\* the service with a ledger that earlier reconciliations have filled
LedgerInit ==
  /\ parcels = [i \in ParcelIds |-> None]
  /\ nextParcel = 1
  /\ payments \in Ledgers
  /\ users = <<>>
  /\ sessions = <<>>
  /\ pc = [h \in Handlers |-> "idle"]
  /\ req = [h \in Handlers |-> NoLocals]
  /\ log = <<>>

QueryNext ==
  \/ \E h \in Handlers, authHeader \in AuthHeaders,
        email \in {None} \cup {Some(c) : c \in Callers}, initialized \in BOOLEAN :
       GetPayments(h, authHeader, email, initialized)
  \/ \E h \in Handlers, up \in BOOLEAN : VerifyIdToken(h, up)
  \/ \E h \in Handlers, up \in BOOLEAN : FindSorted(h, up)

\* GET /payments requests, overlapping, over a ledger that does not change
QuerySpec == LedgerInit /\ [][QueryNext]_vars

\* --------------------------------------------------------------- POST /users

MaxUserPosts == 2       \* POST /users requests ever received

\* the role a request body asks for; the handler does not copy it
BodyRoles == {None, Some("admin")}

\* the local variables of the POST /users handler
UserLocals(email, role) ==
  [user |-> [email |-> email, role |-> role], existingUser |-> None,
   newUser |-> None, result |-> None]
\* the body of a POST /users response
UserBody(message, error, insertedId) ==
  [message |-> message, error |-> error, insertedId |-> insertedId]

\* usersCollection.findOne({email}): the first document with that email
FindUser(email) ==
  LET found == {i \in DOMAIN users : users[i].email = email}
  IN  IF found = {} THEN None
      ELSE Some(users[CHOOSE i \in found : \A k \in found : i <= k])

\* POST /users, up to await usersCollection.findOne(query)
PostUser(h, email, role) ==
  /\ pc[h] = "idle"
  /\ \A g \in Handlers : g < h => pc[g] # "idle"
  /\ Len(log) + Cardinality(InFlight) < MaxUserPosts
  /\ pc' = [pc EXCEPT ![h] = "users.findOne"]
  /\ req' = [req EXCEPT ![h] = UserLocals(email, role)]
  /\ UNCHANGED <<parcels, nextParcel, payments, users, sessions, log>>

\* await usersCollection.findOne(query) settles; the handler answers "User
\* already exists", or builds newUser and runs on to await
\* usersCollection.insertOne(newUser).
\* up: the store answers; now: what new Date() reads
FindOneUser(h, up, now) ==
  LET existingUser == FindUser(req[h].user.email)
      newUser == [email |-> req[h].user.email, role |-> "user", createdAt |-> now]
  IN
  /\ pc[h] = "users.findOne"
  /\ IF ~up
       THEN Respond(h, req[h], 500, UserBody(None, Some("Failed to save user"), None))
     ELSE IF existingUser # None
       THEN Respond(h, [req[h] EXCEPT !.existingUser = existingUser], 200,
                    UserBody(Some("User already exists"), None, None))
     ELSE /\ pc' = [pc EXCEPT ![h] = "users.insertOne"]
          /\ req' = [req EXCEPT ![h] = [@ EXCEPT !.newUser = Some(newUser)]]
          /\ log' = log
  /\ UNCHANGED <<parcels, nextParcel, payments, users, sessions>>

\* await usersCollection.insertOne(newUser) settles; the handler responds 201
\* with the insert result.
\* up: the store answers
InsertUser(h, up) ==
  LET insertedId == Len(users) + 1 IN
  /\ pc[h] = "users.insertOne"
  /\ IF ~up
       THEN /\ Respond(h, req[h], 500, UserBody(None, Some("Failed to save user"), None))
            /\ users' = users
       ELSE /\ users' = Append(users, Get(req[h].newUser))
            /\ Respond(h, [req[h] EXCEPT !.result = Some(insertedId)], 201,
                       UserBody(None, None, Some(insertedId)))
  /\ UNCHANGED <<parcels, nextParcel, payments, sessions>>

UsersNext ==
  \/ \E h \in Handlers, email \in Callers, role \in BodyRoles : PostUser(h, email, role)
  \/ \E h \in Handlers, up \in BOOLEAN, now \in Clock : FindOneUser(h, up, now)
  \/ \E h \in Handlers, up \in BOOLEAN : InsertUser(h, up)

\* POST /users requests, overlapping
UsersSpec == Init /\ [][UsersNext]_vars

\* ------------------------------------------------------- the specification

\* the steps that do not start a PATCH /payment-success request
Others ==
  \/ \E s \in 1..MaxSessions : PaySession(s)
  \/ \E status \in PostedStatuses : PostParcel(status)
  \/ \E id \in ParcelRefs : DeleteParcel(id)
  \/ \E cost \in CostInputs, parcelId \in ParcelRefs,
        parcelName \in ParcelNames, senderEmail \in Emails :
       CreateCheckoutSession(cost, parcelId, parcelName, senderEmail)
  \/ \E h \in Handlers, up \in BOOLEAN : Retrieve(h, up)
  \/ \E h \in Handlers, up \in BOOLEAN, now \in Clock, r \in 1..NumRand :
       FindOne(h, up, now, r)
  \/ \E h \in Handlers, up \in BOOLEAN, now \in Clock : UpdateOne(h, up, now)
  \/ \E h \in Handlers, up \in BOOLEAN : InsertOne(h, up)

\* requests arrive at any time
Next ==
  \/ Others
  \/ \E h \in Handlers, session_id \in SessionRefs : Begin(h, session_id)

Spec == Init /\ [][Next]_vars

\* a caller that sends its next PATCH /payment-success request only after the
\* response to the previous one
SeqNext ==
  \/ Others
  \/ \E h \in Handlers, session_id \in SessionRefs :
       InFlight = {} /\ Begin(h, session_id)

SeqSpec == Init /\ [][SeqNext]_vars

\* ================================================================ claims

\* the responses that carry success: true
Succeeded(e) == e.status = 200
\* Confirmed: the response of the path that inserted a Payment Record
Confirmed(e) == e.status = 200 /\ e.body.paymentInfo # None
\* AlreadyProcessed: the response of the idempotency short-circuit
AlreadyProcessed(e) ==
  e.status = 200 /\ e.body.message = Some("Payment already processed")
\* the completed requests that named session s
CallsOf(s) == {i \in DOMAIN log : log[i].session_id = Some(s)}
\* the Payment Records that reference parcel p
RecordsOf(p) == {i \in DOMAIN payments : payments[i].parcelId = p}
\* the Payment Records of session s's charge
RecordsOfSession(s) == {i \in DOMAIN payments : payments[i].transactionId = Some(s)}
\* session s is paid and names a parcel that is in the store
NamesStoredParcel(s) ==
  /\ s \in 1..Len(sessions)
  /\ sessions[s].payment_status = "paid"
  /\ ObjectIdIsValid(sessions[s].metadata.parcelId)
  /\ FindParcel(sessions[s].metadata.parcelId) # None
IsPaid(p) == parcels[p] # None /\ Get(parcels[p]).paymentStatus = "paid"

\* a completed request whose findOne found the parcel in the store
FoundParcel(e) == e.parcel # None

\* C1: of the reconcile calls on one paid session that found the session's
\* parcel in the store (and the parcel stays there), at most one is Confirmed,
\* so at most one parcel update and one Payment Record insertion occur, and
\* all the successful ones return the same trackingId.
C1_OneCommitPerSession ==
  \A s \in 1..MaxSessions :
    NamesStoredParcel(s) =>
      LET found == {i \in CallsOf(s) : Succeeded(log[i]) /\ FoundParcel(log[i])}
      IN  /\ Cardinality({i \in found : Confirmed(log[i])}) <= 1
          /\ \A i, j \in found : log[i].body.trackingId = log[j].body.trackingId

\* C2: for a caller that sends one request after the other: if the first call
\* that names a paid session finds the parcel unpaid and succeeds, it is
\* Confirmed, and as long as the parcel is in the store every later successful
\* call for that session is AlreadyProcessed with the same trackingId and
\* exactly one Payment Record references the parcel.
C2_Idempotent ==
  \A s \in 1..MaxSessions : \A i \in CallsOf(s) :
    ( /\ \A k \in CallsOf(s) : i <= k
      /\ Succeeded(log[i])
      /\ FoundParcel(log[i])
      /\ Get(log[i].parcel).paymentStatus # "paid"
      /\ NamesStoredParcel(s) )
    => /\ Confirmed(log[i])
       /\ \A j \in CallsOf(s) :
            j > i /\ Succeeded(log[j])
              => /\ AlreadyProcessed(log[j])
                 /\ log[j].body.trackingId = log[i].body.trackingId
       /\ Cardinality(RecordsOf(sessions[s].metadata.parcelId)) = 1

\* C2 witness: a Confirmed call followed by an AlreadyProcessed call for the
\* same session
C2_Witness ==
  \E s \in 1..MaxSessions : \E i, j \in CallsOf(s) :
    /\ i < j
    /\ Confirmed(log[i]) /\ FoundParcel(log[i])
    /\ AlreadyProcessed(log[j])
    /\ NamesStoredParcel(s)

\* C3: when no request is in flight, a parcel that reconciliation marked paid
\* (its trackingId is set) is referenced by exactly one Payment Record, an
\* unpaid parcel by none, and no parcel by more than one.
C3_PaidIffOneRecord ==
  InFlight = {} =>
    \A p \in ParcelIds :
      parcels[p] # None =>
        /\ Cardinality(RecordsOf(p)) <= 1
        /\ (IsPaid(p) /\ Get(parcels[p]).trackingId # None
              => Cardinality(RecordsOf(p)) = 1)
        /\ (~IsPaid(p) => Cardinality(RecordsOf(p)) = 0)

\* the parcel a completed request's session names
ParcelOf(e) == Get(e.session).metadata.parcelId
\* a completed request whose updateOne changed a stored parcel
UpdatedParcel(e) == e.result # None /\ Get(e.result).matchedCount = 1

\* C4: a request that has ended and whose parcel update took effect has also
\* inserted its Payment Record: no ended request leaves its parcel paid with
\* no Payment Record referencing it.
C4_NoPartialCommit ==
  \A i \in DOMAIN log :
    UpdatedParcel(log[i]) /\ IsPaid(ParcelOf(log[i]))
      => /\ log[i].resultPayment # None
         /\ RecordsOf(ParcelOf(log[i])) # {}

\* C5: no step changes the paymentStatus or the trackingId of a parcel that is
\* already paid (the trackingId is written once).
C5_TrackingIdWrittenOnce ==
  [][\A p \in ParcelIds :
       IsPaid(p) /\ parcels'[p] # None => parcels'[p] = parcels[p]]_vars

\* C6: a request for a paid session whose parcel lookup finds no parcel does
\* not succeed and inserts no Payment Record.
C6_MissingParcelFails ==
  \A i \in DOMAIN log :
    ( /\ log[i].session # None
      /\ Get(log[i].session).payment_status = "paid"
      /\ log[i].trackingId # None
      /\ ~FoundParcel(log[i]) )
    => ~Succeeded(log[i]) /\ log[i].resultPayment = None

\* a request that has issued neither of the handler's two writes
NoWrites(e) == e.result = None /\ e.payment = None /\ e.resultPayment = None

\* C7: a request whose retrieved session is not paid ends with 400
\* {success: false, message} and has issued no write; no request goes past the
\* retrieval holding a session that is not paid.
C7_NotPaidNoWrites ==
  /\ \A i \in DOMAIN log :
       log[i].session # None /\ Get(log[i].session).payment_status # "paid"
         => /\ log[i].status = 400
            /\ log[i].body = Body(Some(FALSE), Some("Payment not verified"),
                                  None, None, None, None, None)
            /\ NoWrites(log[i])
  /\ \A h \in Handlers :
       req[h].session # None => Get(req[h].session).payment_status = "paid"

\* C7 witness: a request for a session that is not paid has been answered
C7_Witness ==
  \E i \in DOMAIN log :
    /\ log[i].session # None
    /\ Get(log[i].session).payment_status = "unpaid"
    /\ log[i].status = 400

\* the retrieval of a completed request failed: the gateway did not know the
\* reference, or could not be reached
RetrievalFailed(e) ==
  e.error \in {Some("No such checkout.session"), Some("StripeConnectionError")}

\* C8: a request whose session retrieval fails ends with 500 and has issued
\* no write; a request ends without a session only when it carried no
\* session_id or its retrieval failed.
C8_UnknownSessionNoWrites ==
  \A i \in DOMAIN log :
    /\ RetrievalFailed(log[i])
         => /\ log[i].status = 500
            /\ log[i].session = None
            /\ NoWrites(log[i])
    /\ log[i].session_id # None /\ log[i].session = None => RetrievalFailed(log[i])

\* C8 witness: a request naming a session the gateway does not know has been
\* answered
C8_Witness ==
  \E i \in DOMAIN log :
    /\ log[i].error = Some("No such checkout.session")
    /\ log[i].session_id # None
    /\ Get(log[i].session_id) > Len(sessions)

\* C9: for a caller that retries after a failure: once a call that found the
\* parcel unpaid has failed and a later call for the same session succeeds
\* (the parcel still in the store), the parcel is paid, exactly one Payment
\* Record references it, and the trackingId returned is the one on both.
C9_RetryReachesConsistency ==
  \A s \in 1..MaxSessions : \A i, j \in CallsOf(s) :
    ( /\ i < j
      /\ log[i].status = 500
      /\ FoundParcel(log[i])
      /\ Get(log[i].parcel).paymentStatus # "paid"
      /\ Succeeded(log[j])
      /\ NamesStoredParcel(s) )
    => LET p == sessions[s].metadata.parcelId IN
       /\ IsPaid(p)
       /\ Cardinality(RecordsOf(p)) = 1
       /\ \A k \in RecordsOf(p) : payments[k].trackingId = log[j].body.trackingId
       /\ Get(parcels[p]).trackingId = log[j].body.trackingId

\* C10: every completed PATCH /payment-success request has status 200, 400 or
\* 500; a 200 carries success: true, a trackingId and a transactionId; a 400
\* carries success: false and a message; a request that threw has 500.
C10_ResponseShape ==
  \A i \in DOMAIN log :
    LET e == log[i] IN
    /\ e.status \in {200, 400, 500}
    /\ e.status = 200 => /\ e.body.success = Some(TRUE)
                         /\ e.body.trackingId # None
                         /\ e.body.transactionId # None
    /\ e.status = 400 => e.body.success = Some(FALSE) /\ e.body.message # None
    /\ e.error # None <=> e.status = 500

\* C12: a parcel enters the store with paymentStatus "unpaid" and no
\* trackingId, and the only change a stored parcel ever undergoes is the one
\* transition from unpaid to paid (never back, never a second write).
C12_ParcelLifecycle ==
  [][\A p \in ParcelIds :
       /\ parcels[p] = None /\ parcels'[p] # None
            => /\ Get(parcels'[p]).paymentStatus = "unpaid"
               /\ Get(parcels'[p]).trackingId = None
       /\ parcels[p] # None /\ parcels'[p] # None /\ parcels'[p] # parcels[p]
            => /\ Get(parcels[p]).paymentStatus = "unpaid"
               /\ Get(parcels'[p]).paymentStatus = "paid"]_vars

\* C13: the payment ledger is append-only: no step removes a Payment Record
\* or changes a field of one; the ledger only grows at its end.
C13_LedgerAppendOnly ==
  [][/\ Len(payments') >= Len(payments)
     /\ \A i \in DOMAIN payments : payments'[i] = payments[i]]_vars

\* C13 witness: the ledger holds a Payment Record and a later request has
\* inserted another one for the same parcel
C13_Witness ==
  \E i, j \in DOMAIN payments : i < j /\ payments[i].parcelId = payments[j].parcelId

\* a completed request whose findOne found the parcel already paid
FoundPaid(e) == e.parcel # None /\ Get(e.parcel).paymentStatus = "paid"

\* C15: a request whose parcel lookup finds the parcel already paid, whether
\* by this session or by another paid session naming the same parcel, ends
\* AlreadyProcessed with the trackingId stored on the parcel and the
\* transaction identifier of its own session, and has issued no write; no
\* request goes on to the update holding a parcel it found paid.
C15_ShortCircuit ==
  /\ \A i \in DOMAIN log :
       FoundPaid(log[i])
         => /\ AlreadyProcessed(log[i])
            /\ log[i].body.trackingId = Get(log[i].parcel).trackingId
            /\ log[i].body.transactionId = Get(log[i].session).payment_intent
            /\ NoWrites(log[i])
  /\ \A h \in Handlers : ~FoundPaid(req[h])

\* C15 witness: a request of one session was Confirmed and a later request of
\* another session naming the same parcel found it paid
C15_Witness ==
  \E i, j \in DOMAIN log :
    /\ i < j
    /\ Confirmed(log[i])
    /\ FoundPaid(log[j])
    /\ Get(log[j].parcel).trackingId # None
    /\ log[i].session_id # log[j].session_id
    /\ ParcelOf(log[i]) = ParcelOf(log[j])

\* C16: no two Payment Records carry the same transactionId.
C16_UniqueTransactionId ==
  \A i, j \in DOMAIN payments :
    i # j => payments[i].transactionId # payments[j].transactionId

\* C17: the trackingId of every Payment Record is the trackingId now stored
\* on the parcel it references, and the trackingId of every Confirmed or
\* AlreadyProcessed response is the one stored on the parcel of its session.
C17_TrackingIdAgrees ==
  /\ \A i \in DOMAIN payments :
       FindParcel(payments[i].parcelId) # None
         => payments[i].trackingId = Get(FindParcel(payments[i].parcelId)).trackingId
  /\ \A i \in DOMAIN log :
       Succeeded(log[i]) /\ FindParcel(ParcelOf(log[i])) # None
         => log[i].body.trackingId = Get(FindParcel(ParcelOf(log[i]))).trackingId

\* the Payment Record a Confirmed request persisted is derived from the
\* session the request retrieved, and carries the trackingId of the response
DerivedFromSession(e) ==
  LET session == Get(e.session)
      record  == payments[Get(e.resultPayment)]
  IN  /\ record.amount * MinorUnits = session.amount_total
      /\ record.currency = session.currency
      /\ record.customerEmail = session.customer_email
      /\ record.parcelId = session.metadata.parcelId
      /\ record.parcelName = session.metadata.parcelName
      /\ record.transactionId = session.payment_intent
      /\ record.transactionId = e.body.transactionId
      /\ record.trackingId = e.body.trackingId

\* C18: the Payment Record of every Confirmed request has amount * 100 =
\* amount_total and the currency, customerEmail, parcelId, parcelName and
\* payment intent of the session, and its trackingId is the one returned in
\* the response and the one the request's update wrote to the parcel.
C18_RecordFromSession ==
  [][/\ \A i \in DOMAIN log' : Confirmed(log'[i]) => DerivedFromSession(log[i])'
     /\ \A h \in Handlers :
          pc[h] = "updateOne" /\ pc'[h] = "insertOne"
            => LET p == Get(req[h].session).metadata.parcelId IN
               /\ Get(req'[h].payment).trackingId = req[h].trackingId
               /\ FindParcel(p) # None
                    => Get(parcels'[p]).trackingId = req[h].trackingId]_vars

\* C18 witness: a request was Confirmed after its update changed the parcel
C18_Witness ==
  \E i \in DOMAIN log :
    Confirmed(log[i]) /\ UpdatedParcel(log[i]) /\ log[i].resultPayment # None

\* handler h takes the step
Steps(h) == pc'[h] # pc[h] \/ req'[h] # req[h]

\* C19: a step of a request whose session names parcel A changes no parcel
\* other than A, inserts no Payment Record that references another parcel, and
\* touches no other request; a request that holds no session yet writes
\* nothing.  So what a request for A reads and writes is out of reach of the
\* requests for other parcels.
C19_CrossSessionFrame ==
  [][\A h \in Handlers :
       Steps(h) =>
         /\ \A g \in Handlers \ {h} : pc'[g] = pc[g] /\ req'[g] = req[g]
         /\ IF req[h].session = None
              THEN parcels' = parcels /\ payments' = payments
              ELSE LET A == Get(req[h].session).metadata.parcelId IN
                   /\ \A p \in ParcelIds \ {A} : parcels'[p] = parcels[p]
                   /\ \A i \in DOMAIN payments : payments'[i] = payments[i]
                   /\ \A i \in DOMAIN payments' \ DOMAIN payments :
                        payments'[i].parcelId = A]_vars

\* C19 witness: two overlapping requests for different stored parcels have
\* both written their parcel, and both parcels carry their own request's
\* trackingId
C19_Witness ==
  \E h, g \in Handlers :
    /\ pc[h] = "insertOne" /\ pc[g] = "insertOne"
    /\ Get(req[h].payment).parcelId # Get(req[g].payment).parcelId
    /\ UpdatedParcel(req[h]) /\ UpdatedParcel(req[g])

\* C11: every answered GET /payments request for which no token was verified
\* (no bearer token, or an invalid one) has 401; one whose authenticated email
\* is not the email of the query has 403; every other one has 200 and an
\* array, sorted by paidAt descending, of Payment Records whose customerEmail
\* is the caller's authenticated email.
C11_OwnHistoryOnly ==
  \A i \in DOMAIN log :
    LET e == log[i] IN
    IF e.user = None THEN e.status = 401
    ELSE IF Get(e.user).email # e.email THEN e.status = 403
    ELSE /\ e.status = 200
         /\ e.body.result # None
         /\ SortedByPaidAtDesc(Get(e.body.result))
         /\ \A k \in DOMAIN Get(e.body.result) :
              /\ Get(e.user).email # None
              /\ Get(e.body.result)[k].customerEmail = Get(Get(e.user).email)

\* the number a cost is written as, when all of it is an integer numeral
\* (white space and a plus sign may lead; decimal or 0x hexadecimal digits
\* only); NaN for every other cost
IntegerNumeral(cost) ==
  LET t    == TrimStart(cost)
      body == IF t # <<>> /\ Head(t) = "+" THEN Tail(t) ELSE t
      hex  == Len(body) >= 3 /\ body[1] = "0" /\ body[2] \in {"x", "X"}
  IN  IF hex
        THEN IF \A k \in 3..Len(body) : body[k] \in HexDigits
               THEN LeadingHexDigits(Tail(Tail(body)), 0) ELSE NaN
      ELSE IF body # <<>> /\ \A k \in DOMAIN body : body[k] \in Digits
        THEN LeadingDigits(body, 0) ELSE NaN
IsPositiveInteger(cost) == IntegerNumeral(cost) # NaN /\ IntegerNumeral(cost) > 0

\* C14: every POST /create-checkout-session request whose cost is not a
\* positive integer (zero, negative, not numeric, fractional, or with
\* trailing characters) is answered 400 and creates no session; every session
\* created answers a request whose cost is a positive integer, and its unit
\* amount is cost * 100.
C14_PositiveIntegerCostOnly ==
  \A i \in DOMAIN log :
    LET e == log[i] IN
    /\ ~IsPositiveInteger(e.cost) => e.status = 400 /\ e.body.id = None
    /\ e.body.id # None
         => /\ IsPositiveInteger(e.cost)
            /\ sessions[Get(e.body.id)].amount_total
                 = IntegerNumeral(e.cost) * MinorUnits

\* C20: the users collection holds at most one document per email; a request
\* for an email that is already registered is answered with insertedId null
\* and inserts nothing; every document has role "user".
C20_OneUserPerEmail ==
  /\ \A i, j \in DOMAIN users : i # j => users[i].email # users[j].email
  /\ \A i \in DOMAIN users : users[i].role = "user"
  /\ \A i \in DOMAIN log :
       log[i].existingUser # None
         => /\ log[i].body.insertedId = None
            /\ log[i].body.message = Some("User already exists")
            /\ log[i].newUser = None /\ log[i].result = None

====
